---- MODULE Spec2Model ----
(***************************************************************************)
(* A model of the retry / rate-limit core of shared_utils:                 *)
(*   - retry/backoff.py : is_retryable_error, with_retry, with_retry_sync  *)
(*   - http/client.py   : RateLimiter, RateLimitedClient, RetryingClient   *)
(*                                                                         *)
(* One behaviour exercises one entry point (variable api): concurrent      *)
(* callers of RateLimiter.acquire(), one call of a with_retry /            *)
(* with_retry_sync wrapper, or one verb call of RetryingClient.            *)
(*                                                                         *)
(* Numbers.  Delays are whole seconds.  Token amounts are fixed-point:     *)
(* one token is TokenUnit units, the rate is given in units per clock      *)
(* tick, so tokens + elapsed * rate is exact.  The clock (time.monotonic)  *)
(* is the variable now; it advances by Tick.                               *)
(***************************************************************************)
EXTENDS Integers, Sequences, FiniteSets, TLC

\* ------------------------------------------------------------------ bounds
MaxTime == 5
MaxAcquires == 4
NumCallers == 2
MaxRetriesBound == 2
TokenUnit == 2
MaxFactoryCalls == 2
MaxExponent == 5
MaxVerbCalls == 3
MaxTokens == 2
MaxMockCalls == 3
MaxFailFirst == 2

\* ------------------------------------------------------------ plain helpers
Min(a, b) == IF a <= b THEN a ELSE b

RECURSIVE Pow2(_)
Pow2(n) == IF n <= 0 THEN 1 ELSE 2 * Pow2(n - 1)

Last(s) == s[Len(s)]

\* ------------------------------------------------------------------ errors
\* An exception instance: its class (kind), the status code of the response
\* it carries (0: no response), its message as a sequence of words, the
\* Retry-After header of the response, and id, the number of the invocation
\* that raised it (two raises are two objects).
\* A header is absent (headers.get gives None) or present with a text, a
\* sequence of characters.
NoHeader == [present |-> FALSE, text |-> <<>>]

Header(text) == [present |-> TRUE, text |-> text]

MkError(kind, status, msg, hdr, id) ==
    [kind |-> kind, status |-> status, msg |-> msg, retry_after |-> hdr, id |-> id]

\* retry/errors.py
MaxRetriesExceeded(message, original_error) ==
    [kind |-> "MaxRetriesExceeded", status |-> 0, msg |-> message,
     retry_after |-> NoHeader, id |-> 0, original_error |-> original_error]

\* a retryable set that also holds 404
RETRYABLE_STATUS_CODES_with_404 == {429, 500, 502, 503, 504, 404}

RETRYABLE_STATUS_CODES == {429, 500, 502, 503, 504}

NON_RETRYABLE_STATUS_CODES == {400, 401, 403, 404}

\* str.lower() on the words that occur in the modelled messages
Lower(w) ==
    CASE w = "Rate" -> "rate"
      [] w = "LIMIT" -> "limit"
      [] w = "Too" -> "too"
      [] w = "Many" -> "many"
      [] w = "Requests" -> "requests"
      [] OTHER -> w

LowerMsg(m) == [i \in 1..Len(m) |-> Lower(m[i])]

\* phrase in error_str (substring search, on words)
Contains(m, phrase) ==
    \E i \in 0..(Len(m) - Len(phrase)) :
        \A j \in 1..Len(phrase) : m[i + j] = phrase[j]

RateLimitPhrases == {<<"rate", "limit">>, <<"too", "many", "requests">>, <<"429">>}

\* a classifier that looks at the message before the status code
is_retryable_error_message_first(error) ==
    IF error.kind = "RetryableError" THEN TRUE
    ELSE IF error.kind = "NonRetryableError" THEN FALSE
    ELSE IF \E phrase \in RateLimitPhrases : Contains(LowerMsg(error.msg), phrase)
        THEN TRUE
    ELSE IF error.kind \in {"HTTPStatusError", "RequestsHTTPError"} /\ error.status # 0
        THEN error.status \in RETRYABLE_STATUS_CODES
    ELSE error.kind \in {"ConnectError", "TimeoutException",
                         "RequestsConnectionError", "RequestsTimeout"}

\* a classifier whose status rule decides only for the two listed sets and
\* leaves any other status to the message rule
is_retryable_error_listed_only(error) ==
    IF error.kind = "RetryableError" THEN TRUE
    ELSE IF error.kind = "NonRetryableError" THEN FALSE
    ELSE IF error.kind \in {"HTTPStatusError", "RequestsHTTPError"} /\ error.status # 0
            /\ error.status \in RETRYABLE_STATUS_CODES \cup NON_RETRYABLE_STATUS_CODES
        THEN error.status \in RETRYABLE_STATUS_CODES
    ELSE IF error.kind \in {"ConnectError", "TimeoutException",
                            "RequestsConnectionError", "RequestsTimeout"} THEN TRUE
    ELSE \E phrase \in RateLimitPhrases : Contains(LowerMsg(error.msg), phrase)

\* The classifier, rule by rule as the code applies them.
is_retryable_error(error) ==
    IF error.kind = "RetryableError" THEN TRUE
    ELSE IF error.kind = "NonRetryableError" THEN FALSE
    ELSE IF error.kind = "HTTPStatusError"
        THEN error.status \in RETRYABLE_STATUS_CODES
    ELSE IF error.kind \in {"ConnectError", "TimeoutException"} THEN TRUE
    ELSE IF error.kind = "RequestsHTTPError" /\ error.status # 0
        THEN error.status \in RETRYABLE_STATUS_CODES
    ELSE IF error.kind \in {"RequestsConnectionError", "RequestsTimeout"} THEN TRUE
    ELSE \E phrase \in RateLimitPhrases : Contains(LowerMsg(error.msg), phrase)

\* isinstance(e, retryable_exceptions): the tuple is a set of class names
IsInstance(e, classes) == e.kind \in classes

\* last_error = None, and "nothing raised yet"
NoError == MkError("None", 0, <<>>, NoHeader, 0)

\* raise RuntimeError("Retry loop completed without success or error")
RuntimeError == MkError("RuntimeError", 0, <<"Retry", "loop", "completed">>, NoHeader, 0)

\* float(retry_after) on texts of the characters 0-9 and others: a non-empty
\* run of digits parses to its decimal value, anything else is a ValueError.
DigitChars == {"0", "1", "2", "3", "4", "5", "6", "7", "8", "9"}

DigitVal(c) ==
    CASE c = "0" -> 0 [] c = "1" -> 1 [] c = "2" -> 2 [] c = "3" -> 3
      [] c = "4" -> 4 [] c = "5" -> 5 [] c = "6" -> 6 [] c = "7" -> 7
      [] c = "8" -> 8 [] c = "9" -> 9

RECURSIVE DecimalValue(_)
DecimalValue(text) ==
    IF text = <<>> THEN 0
    ELSE 10 * DecimalValue(SubSeq(text, 1, Len(text) - 1)) + DigitVal(Last(text))

FloatParses(text) == text # <<>> /\ \A i \in 1..Len(text) : text[i] \in DigitChars

ParseFloat(text) == DecimalValue(text)

\* ------------------------------------------------------------------- state
VARIABLES
    api,                  \* the entry point this behaviour exercises
    \* RateLimiter (http/client.py)
    rate,                 \* self.rate, in token units per tick
    burst_size,           \* self.burst_size, in tokens
    tokens,               \* self.tokens, in token units
    last_update,          \* self.last_update
    lock,                 \* self._lock: the set of callers inside "async with"
    now,                  \* time.monotonic()
    lpc,                  \* where each caller of acquire() is
    wait_time,            \* each sleeping caller's (1 - tokens), in token units
    sleep_since,          \* when that caller's asyncio.sleep began
    done_at,              \* the clock at each completed acquire(), in order
    n_acquire,            \* acquire() calls made so far
    \* the retry loops (retry/backoff.py wrappers, RetryingClient)
    max_retries, base_delay, max_delay,
    retryable_exceptions, \* set of class names; {} is None / the empty tuple
    on_retry,             \* whether an observer callback was supplied
    pc,                   \* "off" | "call" | "acquire" | "sleep" | "returned" | "raised"
    attempt,              \* the loop variable
    last_error,
    calls,                \* invocations of the wrapped operation / requests sent
    sleeps,               \* the delay of every retry sleep begun, in order
    observed,             \* the on_retry calls made: <<attempt, error, delay>>
    raised,               \* the exception the call ended with
    \* one call of a pure function (is_retryable_error, the backoff formula)
    fn,                   \* [arg, done, result]
    \* RateLimitedClient (http/client.py)
    rlc,                  \* the verb calls made through the client
    \* get_llm_client (llm/client.py)
    env,                  \* os.environ, the variables the factory reads
    registry,             \* _PROVIDERS: provider name -> adapter class
    instances,            \* every adapter constructed so far, in order
    last_call,            \* the latest factory call: its arguments and outcome
    latest_registration,  \* name -> class of the latest register_provider(name, ...)
    \* MockLLMClient (testing/mock_llm.py)
    mock                  \* the mock client a wrapped call uses

limiter_vars == <<rate, burst_size, tokens, last_update, lock, now, lpc,
                  wait_time, sleep_since, done_at, n_acquire>>

retry_cfg == <<max_retries, base_delay, max_delay, retryable_exceptions, on_retry>>

retry_vars == <<pc, attempt, last_error, calls, sleeps, observed, raised>>

factory_vars == <<env, registry, instances, last_call, latest_registration>>

ext_vars == <<fn, rlc, factory_vars, mock>>

vars == <<api, limiter_vars, retry_cfg, retry_vars, ext_vars>>

Callers == 1..NumCallers

Client == 0

Procs == {Client} \cup Callers

Wrappers == {"with_retry", "with_retry_sync"}

\* ------------------------------------------------------------- RateLimiter
\* __init__: burst_size or int(requests_per_second); 0 stands for None
InitBurst(requests_per_second, burst) ==
    IF burst # 0 THEN burst ELSE requests_per_second \div TokenUnit

RateLimiter_init(requests_per_second, burst) ==
    /\ rate = requests_per_second
    /\ burst_size = InitBurst(requests_per_second, burst)
    /\ tokens = InitBurst(requests_per_second, burst) * TokenUnit
    /\ last_update = 0
    /\ now = 0
    /\ lock = {}
    /\ lpc = [p \in Procs |-> "idle"]
    /\ wait_time = [p \in Procs |-> 0]
    /\ sleep_since = [p \in Procs |-> 0]
    /\ done_at = <<>>
    /\ n_acquire = 0

\* a refill that forgets the cap
Refill_uncapped(tok, elapsed) == tok + elapsed * rate

\* min(self.burst_size, self.tokens + elapsed * self.rate)
Refill(tok, elapsed) == Min(burst_size * TokenUnit, tok + elapsed * rate)

\* an acquire() that does not wait for the lock
lock_free_ignored == TRUE

\* async with self._lock: the lock can be taken
lock_free == lock = {}

\* the pc of a caller whose acquire() returned: the transport goes on to
\* send its request, a plain caller is done
AfterAcquire(p) == IF p = Client THEN "done" ELSE "idle"

\* a wait that is always one whole token's worth
WaitFor_whole_token(t) == TokenUnit

\* wait_time = (1 - self.tokens) / self.rate, kept as the token units still
\* missing; sleep_over divides by the rate
WaitFor(t) == TokenUnit - t

\* The body of "async with self._lock" from the clock read to the first
\* suspension (the sleep) or to the return.
acquire_locked(p) ==
    LET elapsed == now - last_update
        t == Refill(tokens, elapsed)
    IN  /\ last_update' = now
        /\ IF t < TokenUnit
           THEN /\ tokens' = t
                /\ wait_time' = [wait_time EXCEPT ![p] = WaitFor(t)]
                /\ sleep_since' = [sleep_since EXCEPT ![p] = now]
                /\ lock' = lock \cup {p}
                /\ lpc' = [lpc EXCEPT ![p] = "sleeping"]
                /\ done_at' = done_at
           ELSE /\ tokens' = t - TokenUnit
                /\ lock' = lock \ {p}
                /\ lpc' = [lpc EXCEPT ![p] = AfterAcquire(p)]
                /\ done_at' = Append(done_at, now)
                /\ UNCHANGED <<wait_time, sleep_since>>

\* acquire() is called: the caller enters at once when the lock is free and
\* otherwise suspends on the lock.
acquire(p) ==
    /\ lpc[p] = "idle"
    /\ n_acquire' = n_acquire + 1
    /\ UNCHANGED <<rate, burst_size, now>>
    /\ IF lock_free
       THEN acquire_locked(p)
       ELSE /\ lpc' = [lpc EXCEPT ![p] = "blocked"]
            /\ UNCHANGED <<tokens, last_update, lock, wait_time, sleep_since, done_at>>

\* a caller suspended on the lock gets it
lock_acquired(p) ==
    /\ lpc[p] = "blocked"
    /\ lock_free
    /\ acquire_locked(p)
    /\ UNCHANGED <<rate, burst_size, now, n_acquire>>

\* asyncio.sleep(wait_time) is over once wait_time = wait units / rate has
\* passed (it may end later)
sleep_over(p) == (now - sleep_since[p]) * rate >= wait_time[p]

\* a caller that keeps the lock when it returns from its sleep
lock_after_sleep_kept(p) == lock

\* the end of the "async with self._lock" block: the lock is released
lock_after_sleep(p) == lock \ {p}

\* the sleeping caller resumes: self.tokens = 0, the lock is released
sleep_done(p) ==
    /\ lpc[p] = "sleeping"
    /\ sleep_over(p)
    /\ tokens' = 0
    /\ lock' = lock_after_sleep(p)
    /\ lpc' = [lpc EXCEPT ![p] = AfterAcquire(p)]
    /\ wait_time' = [wait_time EXCEPT ![p] = 0]
    /\ sleep_since' = [sleep_since EXCEPT ![p] = 0]
    /\ done_at' = Append(done_at, now)
    /\ UNCHANGED <<rate, burst_size, last_update, now, n_acquire>>

\* the monotonic clock advances
Tick ==
    /\ api \in {"RateLimiter", "RateLimiter.cancel", "RetryingClient", "RateLimitedClient"}
    /\ now < MaxTime
    /\ now' = now + 1
    /\ UNCHANGED <<api, ext_vars, rate, burst_size, tokens, last_update, lock, lpc,
                   wait_time, sleep_since, done_at, n_acquire, retry_cfg, retry_vars>>

\* a task calls limiter.acquire() (async with limiter)
CallerAcquire(p) ==
    /\ api \in {"RateLimiter", "RateLimiter.cancel"}
    /\ n_acquire < MaxAcquires
    /\ acquire(p)
    /\ UNCHANGED <<api, ext_vars, retry_cfg, retry_vars>>

LockAcquired(p) ==
    /\ lock_acquired(p)
    /\ UNCHANGED <<api, ext_vars, retry_cfg, retry_vars>>

SleepDone(p) ==
    /\ sleep_done(p)
    /\ UNCHANGED <<api, ext_vars, retry_cfg, retry_vars>>

\* a cancellation that leaves the lock with the cancelled caller
lock_after_cancel_kept(p) == lock

\* CancelledError leaves "async with self._lock": __aexit__ releases the lock
lock_after_cancel(p) == lock \ {p}

\* The task of caller p is cancelled while it is suspended in acquire():
\* in asyncio.sleep, where the exception leaves the "async with" block
\* before self.tokens = 0, or on the lock, which it then never gets.  A
\* cancelled task makes no further call.
cancel(p) ==
    /\ lpc[p] \in {"sleeping", "blocked"}
    /\ IF lpc[p] = "sleeping"
       THEN /\ lock' = lock_after_cancel(p)
            /\ lpc' = [lpc EXCEPT ![p] = "cancelled in sleep"]
       ELSE /\ lock' = lock
            /\ lpc' = [lpc EXCEPT ![p] = "cancelled on lock"]
    /\ wait_time' = [wait_time EXCEPT ![p] = 0]
    /\ sleep_since' = [sleep_since EXCEPT ![p] = 0]
    /\ UNCHANGED <<rate, burst_size, tokens, last_update, now, done_at, n_acquire>>

Cancel(p) ==
    /\ api = "RateLimiter.cancel"
    /\ cancel(p)
    /\ UNCHANGED <<api, ext_vars, retry_cfg, retry_vars>>

\* --------------------------------------------- with_retry / with_retry_sync
\* a backoff that forgets the cap
backoff_delay_uncapped(att) == base_delay * Pow2(att)

\* min(base_delay * (2 ** attempt), max_delay)
backoff_delay(att) == Min(base_delay * Pow2(att), max_delay)

\* an observer that is told twice
notify_twice(obs, att, e, delay) ==
    IF on_retry
    THEN Append(Append(obs, <<att + 1, e, delay>>), <<att + 1, e, delay>>)
    ELSE obs

\* if on_retry: on_retry(attempt + 1, e, delay); the log line of the else
\* branch is not state
notify(obs, att, e, delay) ==
    IF on_retry THEN Append(obs, <<att + 1, e, delay>>) ELSE obs

\* a wrapper that retries whatever the error is
should_retry_always(e) == TRUE

\* only the classifier is asked, retryable_exceptions is ignored
should_retry_classifier_only(e) == is_retryable_error(e)

\* should_retry: retryable_exceptions first, else the classifier
should_retry(e) ==
    IF retryable_exceptions # {} /\ IsInstance(e, retryable_exceptions)
    THEN TRUE
    ELSE is_retryable_error(e)

\* the comparison off by one: one sleep too many
retries_exhausted_late(att) == att > max_retries

\* a wrapper that never re-raises for want of attempts
retries_exhausted_never(att) == FALSE

\* if attempt >= max_retries: no retries left
retries_exhausted(att) == att >= max_retries

\* the wrapped operation returns: the wrapper returns its result
func_returns ==
    /\ pc = "call"
    /\ calls' = calls + 1
    /\ pc' = "returned"
    /\ UNCHANGED <<api, fn, rlc, factory_vars, limiter_vars, retry_cfg, attempt,
                   last_error, sleeps, observed, raised>>

\* an arbitrary wrapped operation returns
wrapper_returns ==
    /\ api \in Wrappers
    /\ ~mock.made
    /\ func_returns
    /\ mock' = mock

\* the wrapped operation raises error: the except block, up to the re-raise
\* or to the start of the sleep
func_raises(error) ==
    LET e == [error EXCEPT !.id = calls + 1]
        delay == backoff_delay(attempt)
    IN  /\ pc = "call"
        /\ calls' = calls + 1
        /\ last_error' = e
        /\ IF ~should_retry(e) \/ retries_exhausted(attempt)
           THEN /\ pc' = "raised"
                /\ raised' = e
                /\ UNCHANGED <<sleeps, observed>>
           ELSE /\ observed' = notify(observed, attempt, e, delay)
                /\ sleeps' = Append(sleeps, delay)
                /\ pc' = "sleep"
                /\ raised' = raised
        /\ UNCHANGED <<api, fn, rlc, factory_vars, limiter_vars, retry_cfg, attempt>>

\* an arbitrary wrapped operation raises error
wrapper_raises(error) ==
    /\ api \in Wrappers
    /\ ~mock.made
    /\ func_raises(error)
    /\ mock' = mock

\* the error object a rate-limited mock client raises
MockError == MkError("RetryableError", 0, <<"Rate", "limited">>, NoHeader, 0)

\* MockLLMClient.chat: if self.error and self._call_count > self.error_after
mock_chat_raises(call_count) == call_count > mock.error_after

\* MockLLMClient.chat up to its raise or return: the call is counted and
\* its outcome logged
mock_chat ==
    mock' = [mock EXCEPT
               !.call_count = @ + 1,
               !.outcomes = Append(@, IF mock_chat_raises(mock.call_count + 1)
                                      THEN "RetryableError" ELSE "returned")]

\* the wrapped operation is client.chat of a rate-limited mock client
wrapper_calls_mock ==
    /\ api \in Wrappers
    /\ mock.made
    /\ mock_chat
    /\ IF mock_chat_raises(mock.call_count + 1)
       THEN func_raises(MockError)
       ELSE func_returns

\* client.chat is called directly
MockChat ==
    /\ api = "MockLLMClient"
    /\ mock.call_count < MaxMockCalls
    /\ mock_chat
    /\ UNCHANGED <<api, fn, rlc, factory_vars, limiter_vars, retry_cfg, retry_vars>>

\* the sleep ends: the next iteration of "for attempt in range(max_retries
\* + 1)", or the code after the loop when the range is used up
wrapper_sleep_done ==
    /\ api \in Wrappers
    /\ pc = "sleep"
    /\ attempt' = attempt + 1
    /\ IF attempt + 1 < max_retries + 1
       THEN pc' = "call" /\ raised' = raised
       ELSE /\ pc' = "raised"
            /\ raised' = IF last_error # NoError THEN last_error ELSE RuntimeError
    /\ UNCHANGED <<api, ext_vars, limiter_vars, retry_cfg, last_error, calls, sleeps, observed>>

\* ----------------------------------------- RateLimitedClient, RetryingClient
\* a raise_for_status that lets every status below 500 pass
is_error_status_5xx_only(status) == status >= 500

\* response.raise_for_status() raises HTTPStatusError
is_error_status(status) == ~(200 <= status /\ status < 300)

\* the 4xx rule without its exception for 429
is_client_error_with_429(status) == 400 <= status /\ status < 500

\* if 400 <= status < 500 and status != 429: raise
is_client_error(status) == 400 <= status /\ status < 500 /\ status # 429

\* a hint clamped to max_delay
retry_after_delay_clamped(e, att) ==
    IF e.retry_after.present /\ e.retry_after.text # <<>>
       /\ FloatParses(e.retry_after.text)
    THEN Min(ParseFloat(e.retry_after.text), max_delay)
    ELSE backoff_delay(att)

\* the delay of the sleep after a status error: the exponential delay,
\* replaced by float(retry_after) when the header is there (and not empty)
\* and float() does not raise ValueError
retry_after_delay(e, att) ==
    IF e.retry_after.present /\ e.retry_after.text # <<>>
       /\ FloatParses(e.retry_after.text)
    THEN ParseFloat(e.retry_after.text)
    ELSE backoff_delay(att)

\* if attempt < self.max_retries: a sleep follows
client_sleeps(att) == att < max_retries

\* a loop whose retries send the request on the inner client directly, past
\* the limiter
client_call_retry_unlimited ==
    /\ api = "RetryingClient"
    /\ pc = "call"
    /\ IF attempt = 0
       THEN acquire(Client)
       ELSE /\ lpc[Client] = "idle"
            /\ lpc' = [lpc EXCEPT ![Client] = "done"]
            /\ UNCHANGED <<rate, burst_size, now, n_acquire, tokens, last_update, lock,
                           wait_time, sleep_since, done_at>>
    /\ pc' = "acquire"
    /\ UNCHANGED <<api, ext_vars, retry_cfg, attempt, last_error, calls, sleeps, observed, raised>>

\* One iteration of the loop begins: the verb of rate_limited_client is
\* called, _request enters "async with self.limiter", that is acquire().
client_call ==
    /\ api = "RetryingClient"
    /\ pc = "call"
    /\ acquire(Client)
    /\ pc' = "acquire"
    /\ UNCHANGED <<api, ext_vars, retry_cfg, attempt, last_error, calls, sleeps, observed, raised>>

\* "raise None": exceptions must derive from BaseException
TypeErrorNone == MkError("TypeError", 0, <<"exceptions", "must", "derive">>, NoHeader, 0)

\* raise last_error, after the loop of _request_with_retry
raise_last_error(le) == IF le = NoError THEN TypeErrorNone ELSE le

\* the rest of an iteration after a failure e that the loop catches and
\* does not re-raise at once: sleep if attempts remain, else leave the loop
\* and "raise last_error"
client_retry_or_give_up(e, delay) ==
    IF client_sleeps(attempt)
    THEN /\ sleeps' = Append(sleeps, delay)
         /\ pc' = "sleep"
         /\ raised' = raised
    ELSE /\ pc' = "raised"
         /\ raised' = raise_last_error(last_error')
         /\ sleeps' = sleeps

\* acquire() has returned: _request sends the request and gets a response
\* with this status and Retry-After header; raise_for_status() and the
\* except HTTPStatusError block of _request_with_retry
client_response(status, hdr) ==
    LET e == MkError("HTTPStatusError", status, <<>>, hdr, calls + 1)
    IN  /\ api = "RetryingClient"
        /\ pc = "acquire"
        /\ lpc[Client] = "done"
        /\ lpc' = [lpc EXCEPT ![Client] = "idle"]
        /\ calls' = calls + 1
        /\ IF ~is_error_status(status)
           THEN /\ pc' = "returned"
                /\ UNCHANGED <<last_error, sleeps, raised>>
           ELSE /\ last_error' = e
                /\ IF is_client_error(status)
                   THEN /\ pc' = "raised"
                        /\ raised' = e
                        /\ sleeps' = sleeps
                   ELSE client_retry_or_give_up(e, retry_after_delay(e, attempt))
        /\ UNCHANGED <<api, ext_vars, rate, burst_size, tokens, last_update, lock, now,
                       wait_time, sleep_since, done_at, n_acquire, retry_cfg,
                       attempt, observed>>

\* the request gets no response: the transport raises an exception of class
\* kind; ConnectError and TimeoutException are caught, any other propagates
client_no_response(kind) ==
    LET e == MkError(kind, 0, <<>>, NoHeader, calls + 1)
    IN  /\ api = "RetryingClient"
        /\ pc = "acquire"
        /\ lpc[Client] = "done"
        /\ lpc' = [lpc EXCEPT ![Client] = "idle"]
        /\ calls' = calls + 1
        /\ IF kind \in {"ConnectError", "TimeoutException"}
           THEN /\ last_error' = e
                /\ client_retry_or_give_up(e, backoff_delay(attempt))
           ELSE /\ pc' = "raised"
                /\ raised' = e
                /\ UNCHANGED <<last_error, sleeps>>
        /\ UNCHANGED <<api, ext_vars, rate, burst_size, tokens, last_update, lock, now,
                       wait_time, sleep_since, done_at, n_acquire, retry_cfg,
                       attempt, observed>>

\* the retry sleep ends: the next iteration
client_sleep_done ==
    /\ api = "RetryingClient"
    /\ pc = "sleep"
    /\ attempt' = attempt + 1
    /\ pc' = "call"
    /\ UNCHANGED <<api, ext_vars, limiter_vars, retry_cfg, last_error, calls, sleeps,
                   observed, raised>>

\* client.get / post / put / delete / patch(url): _request(method, url) enters
\* "async with self.limiter", which calls acquire()
rlc_request(verb) ==
    /\ api = "RateLimitedClient"
    /\ rlc.pc \in {"idle", "returned", "raised"}
    /\ rlc.verb_calls < MaxVerbCalls
    /\ acquire(Client)
    /\ rlc' = [rlc EXCEPT !.pc = "acquire", !.verb_calls = @ + 1, !.verb = verb,
                          !.method = "none", !.status = 0, !.error = NoError]
    /\ UNCHANGED <<api, retry_cfg, retry_vars, fn, factory_vars, mock>>

\* acquire() has returned: getattr(self._client, method)(url) is sent and
\* answered, response.raise_for_status() raises or the response is returned
rlc_response(status) ==
    /\ api = "RateLimitedClient"
    /\ rlc.pc = "acquire"
    /\ lpc[Client] = "done"
    /\ lpc' = [lpc EXCEPT ![Client] = "idle"]
    /\ rlc' = [rlc EXCEPT
                 !.requests = @ + 1,
                 !.method = rlc.verb,
                 !.status = status,
                 !.pc = IF is_error_status(status) THEN "raised" ELSE "returned",
                 !.error = IF is_error_status(status)
                           THEN MkError("HTTPStatusError", status, <<>>, NoHeader,
                                        rlc.requests + 1)
                           ELSE NoError]
    /\ UNCHANGED <<api, rate, burst_size, tokens, last_update, lock, now, wait_time,
                   sleep_since, done_at, n_acquire, retry_cfg, retry_vars, fn, factory_vars, mock>>

\* the request is sent and gets no response: the transport's exception
\* leaves _request
rlc_no_response(kind) ==
    /\ api = "RateLimitedClient"
    /\ rlc.pc = "acquire"
    /\ lpc[Client] = "done"
    /\ lpc' = [lpc EXCEPT ![Client] = "idle"]
    /\ rlc' = [rlc EXCEPT
                 !.requests = @ + 1,
                 !.method = rlc.verb,
                 !.pc = "raised",
                 !.error = MkError(kind, 0, <<>>, NoHeader, rlc.requests + 1)]
    /\ UNCHANGED <<api, rate, burst_size, tokens, last_update, lock, now, wait_time,
                   sleep_since, done_at, n_acquire, retry_cfg, retry_vars, fn, factory_vars, mock>>

\* the verb methods RetryingClient defines
RetryingClientVerbs == {"get", "post", "put", "delete"}

\* client.<verb>(url) on a RetryingClient: a verb method passes its own name
\* to _request_with_retry, which calls that attribute of rate_limited_client;
\* a name the class does not define is an AttributeError
retrying_client_dispatch(verb) ==
    IF verb \in RetryingClientVerbs THEN verb ELSE "AttributeError"

\* the drawn verb is called on a RetryingClient
CallVerb ==
    /\ api = "RetryingClient.verb"
    /\ ~fn.done
    /\ fn' = [fn EXCEPT !.done = TRUE, !.result = retrying_client_dispatch(fn.arg)]
    /\ UNCHANGED <<api, limiter_vars, retry_cfg, retry_vars, rlc, factory_vars, mock>>

\* ------------------------------------------------------- pure functions
\* dict.get(key, default)
DictGet(d, key, default) == IF key \in DOMAIN d THEN d[key] ELSE default

\* is_retryable_error(error) is called on the drawn error
Classify ==
    /\ api = "is_retryable_error"
    /\ ~fn.done
    /\ fn' = [fn EXCEPT !.done = TRUE, !.result = is_retryable_error(fn.arg)]
    /\ UNCHANGED <<api, limiter_vars, retry_cfg, retry_vars, rlc, factory_vars, mock>>

\* the delay expression of the wrappers, evaluated for the drawn attempt
Backoff ==
    /\ api = "backoff_delay"
    /\ ~fn.done
    /\ fn' = [fn EXCEPT !.done = TRUE, !.result = backoff_delay(fn.arg)]
    /\ UNCHANGED <<api, limiter_vars, retry_cfg, retry_vars, rlc, factory_vars, mock>>

\* self.usage.get("input_tokens", 0)
input_tokens(usage) == DictGet(usage, "input_tokens", 0)

\* self.usage.get("output_tokens", 0)
output_tokens(usage) == DictGet(usage, "output_tokens", 0)

\* a total read from the usage map
total_tokens_reported(usage) == DictGet(usage, "total_tokens", 0)

\* self.input_tokens + self.output_tokens
total_tokens(usage) == input_tokens(usage) + output_tokens(usage)

\* the three token properties of an LLMResponse with the drawn usage are read
ReadTokens ==
    /\ api = "LLMResponse"
    /\ ~fn.done
    /\ fn' = [fn EXCEPT !.done = TRUE,
                        !.result = [input_tokens |-> input_tokens(fn.arg),
                                    output_tokens |-> output_tokens(fn.arg),
                                    total_tokens |-> total_tokens(fn.arg)]]
    /\ UNCHANGED <<api, limiter_vars, retry_cfg, retry_vars, rlc, factory_vars, mock>>

\* ---------------------------------------------------------- get_llm_client
\* An optional argument: None, or a value.  A string is a TLA+ string, a
\* credential or a numeric text is a sequence of characters or tokens, a
\* temperature is a number of tenths.
NoneStr == [set |-> FALSE, val |-> ""]

NoneText == [set |-> FALSE, val |-> <<>>]

NoneNum == [set |-> FALSE, val |-> 0]

Some(v) == [set |-> TRUE, val |-> v]

\* os.getenv(name, default)
getenv(name, default) == IF name \in DOMAIN env THEN env[name] ELSE default

\* os.getenv(name): None when the variable is not set
getenv_opt(name) == IF name \in DOMAIN env THEN Some(env[name]) ELSE NoneText

\* str.lower() / str.upper() on the provider names that occur
LowerName(name) == CASE name = "OpenAI" -> "openai" [] OTHER -> name

UpperName(name) == CASE name = "custom" -> "CUSTOM" [] OTHER -> name

API_KEY_ENV_VARS ==
    [anthropic |-> "ANTHROPIC_API_KEY", openai |-> "OPENAI_API_KEY",
     google |-> "GOOGLE_API_KEY", grok |-> "XAI_API_KEY"]

DEFAULT_MODELS ==
    [anthropic |-> "claude-sonnet-4-5-20250514", openai |-> "gpt-4o",
     google |-> "gemini-2.0-flash", grok |-> "grok-3"]

\* a registration that keeps the class a name already has
register_provider_keeps_first(reg, name, client_class) == reg @@ (name :> client_class)

\* _PROVIDERS[name] = client_class
register_provider(reg, name, client_class) == (name :> client_class) @@ reg

\* an import of the providers package that leaves grok out
providers_imported_without_grok ==
    register_provider(
        register_provider(
            register_provider([x \in {} |-> ""], "anthropic", "AnthropicClient"),
            "openai", "OpenAIClient"),
        "google", "GoogleClient")

\* _PROVIDERS once shared_utils.llm is imported: providers/__init__.py imports
\* the four adapter modules, each of which registers its class
providers_imported ==
    register_provider(
        register_provider(
            register_provider(
                register_provider([x \in {} |-> ""], "anthropic", "AnthropicClient"),
                "openai", "OpenAIClient"),
            "google", "GoogleClient"),
        "grok", "GrokClient")

\* int(text)
ParseInt(text) == DecimalValue(text)

\* float(text) for a text "digits.digit", in tenths
ParseTenths(text) ==
    LET dot == CHOOSE i \in 1..Len(text) : text[i] = "."
    IN  10 * DecimalValue(SubSeq(text, 1, dot - 1)) + DigitVal(text[dot + 1])

\* value or default: None, 0 and 0.0 are falsy
OrElse(opt, default) == IF opt.set /\ opt.val # 0 THEN opt.val ELSE default

\* api_key.startswith("your_")
StartsWithYour(key) == Len(key) >= 1 /\ key[1] = "your_"

\* if provider is None: provider = os.getenv("LLM_PROVIDER", "anthropic").lower()
resolve_provider(a) ==
    IF a.provider.set THEN a.provider.val
    ELSE LowerName(getenv("LLM_PROVIDER", "anthropic"))

\* if model is None: model = os.getenv("LLM_MODEL", DEFAULT_MODELS.get(provider, ""))
resolve_model(a, provider) ==
    IF a.model.set THEN a.model.val
    ELSE getenv("LLM_MODEL", DictGet(DEFAULT_MODELS, provider, ""))

\* the environment variable the credential is read from
api_key_var(provider) ==
    DictGet(API_KEY_ENV_VARS, provider, UpperName(provider) \o "_API_KEY")

\* if api_key is None: read the variable and reject a missing, empty or
\* placeholder value; an explicit argument is taken as it is
resolve_api_key(a, provider) ==
    IF a.api_key.set THEN [ok |-> TRUE, key |-> a.api_key.val]
    ELSE LET found == getenv_opt(api_key_var(provider))
         IN  IF ~found.set \/ found.val = <<>> \/ StartsWithYour(found.val)
             THEN [ok |-> FALSE, key |-> <<>>]
             ELSE [ok |-> TRUE, key |-> found.val]

\* a cached adapter: the object made first is handed out again
new_instance_id_reused ==
    IF instances = <<>> THEN Len(instances) + 1 ELSE instances[1].id

\* the identity of the object a constructor call makes
new_instance_id == Len(instances) + 1

\* client_class(model=..., api_key=..., max_tokens=..., temperature=...):
\* LLMClient.__init__ stores the fields; the vendor SDK object the subclass
\* then makes is not modelled
construct(client_class, model, key, max_tokens, temperature) ==
    [id |-> new_instance_id,
     class |-> client_class,
     model |-> model,
     api_key |-> key,
     max_tokens |-> OrElse(max_tokens, ParseInt(getenv("LLM_MAX_TOKENS", <<"4", "0", "9", "6">>))),
     temperature |-> OrElse(temperature, ParseTenths(getenv("LLM_TEMPERATURE", <<"0", ".", "3">>)))]

NoArgs ==
    [provider |-> NoneStr, model |-> NoneStr, api_key |-> NoneText,
     max_tokens |-> NoneNum, temperature |-> NoneNum]

\* no factory call made yet
NoCall ==
    [n |-> 0, args |-> NoArgs, outcome |-> "none", reason |-> "none",
     available |-> {}, instance |-> 0]

\* the behaviours that use the provider registry: "get_llm_client" varies
\* the environment and registers one further provider at most,
\* "register_provider" registers and re-registers freely in one environment
FactoryApis == {"get_llm_client", "register_provider"}

\* get_llm_client(provider, model, api_key, max_tokens, temperature); the
\* import of the providers package in its body finds the modules loaded
get_llm_client(a) ==
    /\ api \in FactoryApis
    /\ last_call.n < MaxFactoryCalls
    /\ LET provider == resolve_provider(a)
           model == resolve_model(a, provider)
           cred == resolve_api_key(a, provider)
           made == construct(registry[provider], model, cred.key,
                             a.max_tokens, a.temperature)
       IN  IF provider \notin DOMAIN registry
           THEN /\ last_call' = [n |-> last_call.n + 1, args |-> a,
                                 outcome |-> "ValueError",
                                 reason |-> "Unknown provider",
                                 available |-> DOMAIN registry, instance |-> 0]
                /\ instances' = instances
           ELSE IF ~cred.ok
           THEN /\ last_call' = [n |-> last_call.n + 1, args |-> a,
                                 outcome |-> "ValueError",
                                 reason |-> "API key not found",
                                 available |-> {}, instance |-> 0]
                /\ instances' = instances
           ELSE /\ last_call' = [n |-> last_call.n + 1, args |-> a,
                                 outcome |-> "returned", reason |-> "none",
                                 available |-> {}, instance |-> made.id]
                /\ instances' = Append(instances, made)
    /\ UNCHANGED <<api, limiter_vars, retry_cfg, retry_vars, fn, rlc, env, registry,
                   latest_registration, mock>>

\* register_provider(name, client_class), called by the application: a new
\* name, or a name registered before
RegisterProvider(name, client_class) ==
    /\ api \in FactoryApis
    /\ api = "get_llm_client" =>
          name \notin DOMAIN registry /\ client_class = "CustomClient"
    /\ registry' = register_provider(registry, name, client_class)
    /\ latest_registration' = [latest_registration EXCEPT ![name] = client_class]
    /\ UNCHANGED <<api, limiter_vars, retry_cfg, retry_vars, fn, rlc, env,
                   instances, last_call, mock>>

\* the keys of each adapter class's MODELS; a class without the attribute
\* (hasattr is false) has none
MODELS ==
    [AnthropicClient |->
        {"claude-opus", "claude-opus-4.5", "claude-sonnet", "claude-sonnet-4.5",
         "claude-haiku", "claude-haiku-4.5"},
     OpenAIClient |->
        {"gpt-4.1", "gpt-4.1-mini", "gpt-4.1-nano", "o3", "o3-mini", "o3-pro",
         "o4-mini", "o1", "o1-pro", "gpt-4o", "gpt-4o-mini", "gpt-4-turbo", "gpt-4"},
     GoogleClient |->
        {"gemini-2.5-pro", "gemini-2.5-flash", "gemini-2.5-flash-lite",
         "gemini-2.0-flash", "gemini-2.0-flash-thinking", "gemini-2.5-flash-tts",
         "gemini-2.5-pro-tts"},
     GrokClient |->
        {"grok", "grok-4", "grok-reasoning", "grok-fast", "grok-4-fast"}]

\* list_available_models(): for every registered name the model names of its
\* class; the import in its body finds the provider modules loaded
list_available_models ==
    /\ api = "register_provider"
    /\ ~fn.done
    /\ fn' = [arg |-> 0, done |-> TRUE,
              result |-> [name \in DOMAIN registry |->
                            DictGet(MODELS, registry[name], {})]]
    /\ UNCHANGED <<api, limiter_vars, retry_cfg, retry_vars, rlc, factory_vars, mock>>

\* ---------------------------------------------------------- inputs, Init
\* what the wrapped operation may raise
FuncErrors ==
    { MkError("RetryableError", 0, <<"boom">>, NoHeader, 0),
      MkError("NonRetryableError", 0, <<"Rate", "limit">>, NoHeader, 0),
      MkError("HTTPStatusError", 503, <<>>, NoHeader, 0),
      MkError("HTTPStatusError", 404, <<>>, NoHeader, 0),
      MkError("ConnectError", 0, <<>>, NoHeader, 0),
      MkError("ValueError", 0, <<"boom">>, NoHeader, 0),
      MkError("ValueError", 0, <<"Too", "Many", "Requests">>, NoHeader, 0) }

\* retryable_exceptions arguments: None, (ValueError,), (NonRetryableError,)
RetryableExceptionsArgs == {{}, {"ValueError"}, {"NonRetryableError"}}

\* <<base_delay, max_delay>> arguments
DelayArgs == {<<1, 30>>, <<2, 3>>}

\* responses of the server
Statuses == {200, 403, 429, 500, 501}

Headers == {NoHeader, Header(<<>>), Header(<<"x">>), Header(<<"7">>)}

NoResponseKinds == {"ConnectError", "TimeoutException", "ReadError"}

\* <<requests_per_second in token units per tick, burst_size (0: None)>>
LimiterArgs ==
    {a \in {1, TokenUnit, TokenUnit + 1} \X {0, 1, 2} : InitBurst(a[1], a[2]) >= 1}

\* the exception classes the classifier tells apart, and one it does not know
ErrorKinds ==
    {"RetryableError", "NonRetryableError", "HTTPStatusError", "ConnectError",
     "TimeoutException", "RequestsHTTPError", "RequestsConnectionError",
     "RequestsTimeout", "ValueError"}

\* response status codes: the two listed sets and codes in neither
ResponseStatuses == RETRYABLE_STATUS_CODES \cup NON_RETRYABLE_STATUS_CODES \cup {408, 418, 501}

\* the status codes an error of a class can carry; 0: no response
StatusesOf(kind) ==
    CASE kind = "HTTPStatusError" -> ResponseStatuses
      [] kind = "RequestsHTTPError" -> ResponseStatuses \cup {0}
      [] OTHER -> {0}

Messages ==
    {<<>>, <<"boom">>, <<"Rate", "LIMIT">>, <<"Too", "Many", "Requests">>,
     <<"error", "429">>, <<"too", "many">>}

ClassifierInputs ==
    UNION {{MkError(k, st, m, NoHeader, 0) : st \in StatusesOf(k), m \in Messages} :
           k \in ErrorKinds}

\* the register_provider calls made while shared_utils.llm is imported, one
\* at the end of each adapter module
ImportRegistrations ==
    [n \in {"anthropic", "openai", "google", "grok", "custom"} |->
        CASE n = "anthropic" -> "AnthropicClient"
          [] n = "openai" -> "OpenAIClient"
          [] n = "google" -> "GoogleClient"
          [] n = "grok" -> "GrokClient"
          [] OTHER -> "none"]

\* the names and classes the application registers
RegisterArgs == {"custom", "openai"} \X {"CustomClient", "OpenAIClient"}

\* no MockLLMClient in this behaviour
NoMock ==
    [made |-> FALSE, fail_first |-> 0, error_after |-> 0, call_count |-> 0,
     outcomes |-> <<>>]

\* no pure-function call in this behaviour
NoFn == [arg |-> 0, done |-> FALSE, result |-> 0]

\* no RateLimitedClient in this behaviour
RlcOff ==
    [pc |-> "off", verb_calls |-> 0, requests |-> 0, verb |-> "none",
     method |-> "none", status |-> 0, error |-> NoError]

\* the process environment outside the variables the factory reads
BaseEnv == "HOME" :> "/root"

ProviderEnvs == {BaseEnv, "LLM_PROVIDER" :> "OpenAI", "LLM_PROVIDER" :> "nope"}

KeyEnvs ==
    {BaseEnv,
     "OPENAI_API_KEY" :> <<>>,
     "OPENAI_API_KEY" :> <<"your_", "api_key_here">>,
     ("OPENAI_API_KEY" :> <<"sk-", "o">>) @@ ("ANTHROPIC_API_KEY" :> <<"sk-", "a">>)
        @@ ("CUSTOM_API_KEY" :> <<"sk-", "c">>)}

OptionEnvs ==
    {BaseEnv,
     ("LLM_MODEL" :> "gpt-4o-mini") @@ ("LLM_MAX_TOKENS" :> <<"1", "0", "0">>)
        @@ ("LLM_TEMPERATURE" :> <<"0", ".", "5">>)}

Envs == {p @@ k @@ o @@ BaseEnv : p \in ProviderEnvs, k \in KeyEnvs, o \in OptionEnvs}

KeyArgs == {NoneText, Some(<<>>), Some(<<"your_", "key">>), Some(<<"sk-", "x">>)}

ProviderArgs == {NoneStr, Some("openai"), Some("OpenAI"), Some("nope"), Some("custom")}

\* the argument lists of the factory calls: every provider with every
\* credential, and the options passed and not passed
FactoryArgs ==
    {[provider |-> p, model |-> NoneStr, api_key |-> k,
      max_tokens |-> NoneNum, temperature |-> NoneNum] :
        p \in ProviderArgs, k \in KeyArgs}
    \cup
    {[provider |-> Some("openai"), model |-> m, api_key |-> Some(<<"sk-", "x">>),
      max_tokens |-> o[1], temperature |-> o[2]] :
        m \in {NoneStr, Some("gpt-4")},
        o \in {<<Some(0), Some(0)>>, <<Some(256), Some(7)>>}}

\* the factory calls of a behaviour: where providers are re-registered the
\* calls name a provider or none and leave everything else to the
\* environment
FactoryArgsOf(scenario) ==
    IF scenario = "register_provider"
    THEN {a \in FactoryArgs : a.api_key = NoneText /\ a.model = NoneStr}
    ELSE FactoryArgs

\* the state of everything but the retry loop and the limiter when the
\* behaviour uses neither a pure function, a RateLimitedClient nor the factory
ExtIdle ==
    /\ fn = NoFn
    /\ rlc = RlcOff
    /\ env = BaseEnv
    /\ registry = providers_imported
    /\ latest_registration = ImportRegistrations
    /\ mock = NoMock
    /\ instances = <<>>
    /\ last_call = NoCall

\* no retry loop runs
RetryOff ==
    /\ max_retries = 0 /\ base_delay = 1 /\ max_delay = 1
    /\ retryable_exceptions = {} /\ on_retry = FALSE
    /\ pc = "off" /\ attempt = 0 /\ last_error = NoError /\ calls = 0
    /\ sleeps = <<>> /\ observed = <<>> /\ raised = NoError

RetryInit(d, n) ==
    /\ max_retries = n
    /\ base_delay = d[1]
    /\ max_delay = d[2]
    /\ pc = "call"
    /\ attempt = 0
    /\ last_error = NoError
    /\ calls = 0
    /\ sleeps = <<>>
    /\ observed = <<>>
    /\ raised = NoError

\* a RateLimiter shared by concurrent callers; no retry loop runs
InitLimiter ==
    /\ api = "RateLimiter"
    /\ \E a \in LimiterArgs : RateLimiter_init(a[1], a[2])
    /\ ExtIdle
    /\ max_retries = 0 /\ base_delay = 1 /\ max_delay = 1
    /\ retryable_exceptions = {} /\ on_retry = FALSE
    /\ pc = "off" /\ attempt = 0 /\ last_error = NoError /\ calls = 0
    /\ sleeps = <<>> /\ observed = <<>> /\ raised = NoError

\* a RateLimiter whose callers may be cancelled while they wait
InitLimiterCancel ==
    /\ api = "RateLimiter.cancel"
    /\ \E a \in {1, TokenUnit} \X {1} : RateLimiter_init(a[1], a[2])
    /\ ExtIdle
    /\ RetryOff

\* one call of a function decorated with with_retry / with_retry_sync
InitWrapper ==
    /\ api \in Wrappers
    /\ \E d \in DelayArgs, n \in 0..MaxRetriesBound : RetryInit(d, n)
    /\ retryable_exceptions \in RetryableExceptionsArgs
    /\ on_retry \in BOOLEAN
    /\ RateLimiter_init(TokenUnit, 0)
    /\ ExtIdle

\* one verb call of a RetryingClient, whose RateLimitedClient makes its
\* RateLimiter with burst_size = None
InitClient ==
    /\ api = "RetryingClient"
    /\ \E d \in DelayArgs, n \in 0..MaxRetriesBound : RetryInit(d, n)
    /\ retryable_exceptions = {} /\ on_retry = FALSE
    /\ RateLimiter_init(TokenUnit, 0)
    /\ ExtIdle

\* a process that has imported shared_utils.llm and calls the factory
InitFactory ==
    /\ api = "get_llm_client"
    /\ env \in Envs
    /\ registry = providers_imported
    /\ latest_registration = ImportRegistrations
    /\ mock = NoMock
    /\ instances = <<>>
    /\ last_call = NoCall
    /\ fn = NoFn
    /\ rlc = RlcOff
    /\ RetryOff
    /\ RateLimiter_init(TokenUnit, 0)

\* a process that has imported shared_utils.llm and registers providers,
\* lists the models and calls the factory, with every credential set
InitRegistry ==
    /\ api = "register_provider"
    /\ env = ("OPENAI_API_KEY" :> <<"sk-", "o">>) @@ ("ANTHROPIC_API_KEY" :> <<"sk-", "a">>)
                @@ ("CUSTOM_API_KEY" :> <<"sk-", "c">>) @@ BaseEnv
    /\ registry = providers_imported
    /\ latest_registration = ImportRegistrations
    /\ mock = NoMock
    /\ instances = <<>>
    /\ last_call = NoCall
    /\ fn = NoFn
    /\ rlc = RlcOff
    /\ RetryOff
    /\ RateLimiter_init(TokenUnit, 0)

\* the keys a usage map may hold
UsageKeys == {"input_tokens", "output_tokens", "total_tokens"}

\* usage maps: any of the keys, each with a token count
Usages ==
    {[k \in D |-> f[k]] : D \in SUBSET UsageKeys, f \in [UsageKeys -> 0..MaxTokens]}

\* an LLMResponse constructed with the drawn usage
InitResponse ==
    /\ api = "LLMResponse"
    /\ \E u \in Usages :
          fn = [arg |-> u, done |-> FALSE,
                result |-> [input_tokens |-> 0, output_tokens |-> 0, total_tokens |-> 0]]
    /\ rlc = RlcOff
    /\ env = BaseEnv
    /\ registry = providers_imported
    /\ latest_registration = ImportRegistrations
    /\ mock = NoMock
    /\ instances = <<>>
    /\ last_call = NoCall
    /\ RetryOff
    /\ RateLimiter_init(TokenUnit, 0)

\* MockLLMClientFactory().create_rate_limited(fail_first): MockLLMClient(
\* response=final_response, error=RetryableError("Rate limited"),
\* error_after=fail_first)
create_rate_limited(fail_first) ==
    [made |-> TRUE, fail_first |-> fail_first, error_after |-> fail_first,
     call_count |-> 0, outcomes |-> <<>>]

\* a rate-limited mock client whose chat is called directly
InitMock ==
    /\ api = "MockLLMClient"
    /\ \E n \in 0..MaxFailFirst : mock = create_rate_limited(n)
    /\ fn = NoFn
    /\ rlc = RlcOff
    /\ env = BaseEnv
    /\ registry = providers_imported
    /\ latest_registration = ImportRegistrations
    /\ instances = <<>>
    /\ last_call = NoCall
    /\ RetryOff
    /\ RateLimiter_init(TokenUnit, 0)

\* one call of with_retry_sync(max_retries)(client.chat) for a rate-limited
\* mock client
InitMockWrapped ==
    /\ api = "with_retry_sync"
    /\ \E n \in 0..MaxFailFirst : mock = create_rate_limited(n)
    /\ \E d \in DelayArgs, n \in 0..MaxRetriesBound : RetryInit(d, n)
    /\ retryable_exceptions = {}
    /\ on_retry = FALSE
    /\ fn = NoFn
    /\ rlc = RlcOff
    /\ env = BaseEnv
    /\ registry = providers_imported
    /\ latest_registration = ImportRegistrations
    /\ instances = <<>>
    /\ last_call = NoCall
    /\ RateLimiter_init(TokenUnit, 0)

\* the verbs RateLimitedClient offers
Verbs == {"get", "post", "put", "delete", "patch"}

\* one of the verbs of RateLimitedClient, about to be called on a RetryingClient
InitVerb ==
    /\ api = "RetryingClient.verb"
    /\ \E verb \in Verbs : fn = [arg |-> verb, done |-> FALSE, result |-> "none"]
    /\ rlc = RlcOff
    /\ env = BaseEnv
    /\ registry = providers_imported
    /\ latest_registration = ImportRegistrations
    /\ mock = NoMock
    /\ instances = <<>>
    /\ last_call = NoCall
    /\ RetryOff
    /\ RateLimiter_init(TokenUnit, 0)

\* one call of is_retryable_error
InitClassifier ==
    /\ api = "is_retryable_error"
    /\ \E e \in ClassifierInputs : fn = [arg |-> e, done |-> FALSE, result |-> FALSE]
    /\ rlc = RlcOff
    /\ env = BaseEnv
    /\ registry = providers_imported
    /\ latest_registration = ImportRegistrations
    /\ mock = NoMock
    /\ instances = <<>>
    /\ last_call = NoCall
    /\ RetryOff
    /\ RateLimiter_init(TokenUnit, 0)

\* the status codes of the responses a RateLimitedClient gets
RlcStatuses == {200, 204, 301, 404, 500}

\* an opened RateLimitedClient(requests_per_second, burst_size) used by one task
InitRateLimitedClient ==
    /\ api = "RateLimitedClient"
    /\ \E a \in LimiterArgs : RateLimiter_init(a[1], a[2])
    /\ rlc = [RlcOff EXCEPT !.pc = "idle"]
    /\ fn = NoFn
    /\ env = BaseEnv
    /\ registry = providers_imported
    /\ latest_registration = ImportRegistrations
    /\ mock = NoMock
    /\ instances = <<>>
    /\ last_call = NoCall
    /\ RetryOff

\* the backoff expression for one attempt index of a wrapper's loop
InitBackoff ==
    /\ api = "backoff_delay"
    /\ \E att \in 0..MaxExponent : fn = [arg |-> att, done |-> FALSE, result |-> 0]
    /\ \E d \in DelayArgs : base_delay = d[1] /\ max_delay = d[2]
    /\ max_retries = MaxExponent
    /\ retryable_exceptions = {} /\ on_retry = FALSE
    /\ pc = "off" /\ attempt = 0 /\ last_error = NoError /\ calls = 0
    /\ sleeps = <<>> /\ observed = <<>> /\ raised = NoError
    /\ rlc = RlcOff
    /\ env = BaseEnv
    /\ registry = providers_imported
    /\ latest_registration = ImportRegistrations
    /\ mock = NoMock
    /\ instances = <<>>
    /\ last_call = NoCall
    /\ RateLimiter_init(TokenUnit, 0)

Init ==
    \/ InitLimiter
    \/ InitWrapper
    \/ InitClient
    \/ InitFactory
    \/ InitClassifier
    \/ InitBackoff
    \/ InitRateLimitedClient
    \/ InitRegistry
    \/ InitResponse
    \/ InitLimiterCancel
    \/ InitMock
    \/ InitMockWrapped
    \/ InitVerb

Next ==
    \/ Tick
    \/ \E p \in Callers : CallerAcquire(p)
    \/ \E p \in Procs : LockAcquired(p)
    \/ \E p \in Procs : SleepDone(p)
    \/ wrapper_returns
    \/ \E error \in FuncErrors : wrapper_raises(error)
    \/ wrapper_sleep_done
    \/ client_call
    \/ \E status \in Statuses, hdr \in Headers : client_response(status, hdr)
    \/ \E kind \in NoResponseKinds : client_no_response(kind)
    \/ client_sleep_done
    \/ \E a \in FactoryArgsOf(api) : get_llm_client(a)
    \/ \E a \in RegisterArgs : RegisterProvider(a[1], a[2])
    \/ list_available_models
    \/ ReadTokens
    \/ \E p \in Callers : Cancel(p)
    \/ wrapper_calls_mock
    \/ MockChat
    \/ CallVerb
    \/ Classify
    \/ Backoff
    \/ \E verb \in Verbs : rlc_request(verb)
    \/ \E status \in RlcStatuses : rlc_response(status)
    \/ rlc_no_response("ConnectError")

Spec == Init /\ [][Next]_vars

\* The clock never stops: beyond the idle time that Tick lets pass, it moves
\* on while a caller is in asyncio.sleep and its wait is not over.  Every
\* sleep ends after finitely many ticks, so this needs no bound.
TickWhileSleeping ==
    /\ \E p \in Callers : lpc[p] = "sleeping" /\ ~sleep_over(p)
    /\ now' = now + 1
    /\ UNCHANGED <<api, ext_vars, rate, burst_size, tokens, last_update, lock, lpc,
                   wait_time, sleep_since, done_at, n_acquire, retry_cfg, retry_vars>>

NextLimiter ==
    \/ Tick
    \/ TickWhileSleeping
    \/ \E p \in Callers : CallerAcquire(p)
    \/ \E p \in Callers : LockAcquired(p)
    \/ \E p \in Callers : SleepDone(p)

\* The event loop's scheduling: time passes, a timer that is due resumes
\* its sleeper, and a lock that stays free is given to a waiting caller.
LimiterFairness ==
    /\ WF_vars(TickWhileSleeping)
    /\ \A p \in Callers : WF_vars(LockAcquired(p)) /\ WF_vars(SleepDone(p))

FairSpec == InitLimiter /\ [][NextLimiter]_vars /\ LimiterFairness

\* ------------------------------------------------------------------ claims
\* the acquire() calls completed at or after done_at[i] and up to done_at[j]
CompletedBetween(i, j) == j - i + 1

\* C1: in every interval of length T at most burst_size + rate * T calls of
\* acquire() complete (stated in token units: one completion is TokenUnit
\* units, the capacity is burst_size * TokenUnit units, the rate is in units
\* per tick).
C1_AdmissionBound ==
    \A i \in 1..Len(done_at) : \A j \in i..Len(done_at) :
        TokenUnit * CompletedBetween(i, j)
            <= TokenUnit * burst_size + rate * (done_at[j] - done_at[i])

\* the most recent invocation of the operation failed, with last_error
FailedNow == last_error # NoError /\ last_error.id = calls

\* the call is over
Ended == pc \in {"returned", "raised"}

\* C2: when every attempt failed with a retryable error and max_retries is
\* used up, the call raises MaxRetriesExceeded carrying the last error as
\* its original error.
C2_RaisesMaxRetriesExceeded ==
    (pc = "raised" /\ FailedNow /\ calls = max_retries + 1
        /\ is_retryable_error(last_error))
    => (raised.kind = "MaxRetriesExceeded" /\ raised.original_error = last_error)

\* C3, in every state of a retry loop: at most max_retries + 1 invocations
\* and max_retries sleeps; once the call is over, one sleep for each
\* invocation but the last (none after the final one); a call that ends by
\* raising an error the classifier marks retryable has made exactly
\* max_retries + 1 invocations and max_retries sleeps; with max_retries = 0
\* there is one invocation and no sleep.
C3_Counts ==
    pc # "off" =>
        /\ calls <= max_retries + 1
        /\ Len(sleeps) <= max_retries
        /\ Len(sleeps) <= calls
        /\ (Ended => Len(sleeps) = calls - 1)
        /\ (pc = "raised" /\ FailedNow /\ is_retryable_error(last_error)
                => calls = max_retries + 1 /\ Len(sleeps) = max_retries)
        /\ (max_retries = 0 => calls <= 1 /\ sleeps = <<>>)

\* C3, step by step: the operation is invoked one more time only from a
\* call that is not over, so the first success or the first failure that
\* is raised is the last invocation.
C3_StopsAtEnd == Ended => calls' = calls /\ sleeps' = sleeps /\ pc' = pc

\* C3: a retry loop invokes the operation until its first success or first
\* raised failure and at most max_retries + 1 times; exhausted by retryable
\* failures it has invoked it exactly max_retries + 1 times and slept
\* exactly max_retries times, never after the final failure.
C3_AttemptsAndSleeps == []C3_Counts /\ [][C3_StopsAtEnd]_vars

C3_Witness ==
    /\ api = "RetryingClient"
    /\ pc = "raised" /\ FailedNow /\ is_retryable_error(last_error)
    /\ max_retries >= 2 /\ calls = max_retries + 1 /\ Len(sleeps) = max_retries

\* what C4 says happens at a failure that is not retried: the same error is
\* raised at once, with no sleep and no observer call for this failure
RaisedAtOnce ==
    /\ pc = "raised"
    /\ raised = last_error
    /\ Len(sleeps) = calls - 1
    /\ Len(observed) = (IF on_retry THEN calls - 1 ELSE 0)

\* C4 as stated: when an attempt of a wrapper fails with an error the
\* classifier marks not retryable, the wrapper re-raises it at once.
C4_ClassifierDecides ==
    (api \in Wrappers /\ FailedNow /\ ~is_retryable_error(last_error))
    => RaisedAtOnce

\* C4 as amended, in every state: when an attempt of a wrapper fails with an
\* error that the classifier marks not retryable and that is no instance of
\* the caller's retryable_exceptions, the wrapper re-raises that same error
\* at once, with no sleep and no observer call.
C4_NotRetried ==
    (api \in Wrappers /\ FailedNow /\ ~is_retryable_error(last_error)
        /\ ~IsInstance(last_error, retryable_exceptions))
    => RaisedAtOnce

\* C4 as amended, step by step: after the re-raise nothing more happens in
\* the wrapper.
C4_NothingAfterRaise ==
    (api \in Wrappers /\ pc = "raised") => UNCHANGED retry_vars

\* C4 (amended): an error that neither the classifier nor
\* retryable_exceptions marks retryable is re-raised by the wrapper at once:
\* no sleep, no observer call, no further invocation, however many attempts
\* remain.
C4_NonRetryablePropagates == []C4_NotRetried /\ [][C4_NothingAfterRaise]_vars

C4_Witness ==
    /\ api \in Wrappers /\ on_retry
    /\ pc = "raised" /\ FailedNow /\ ~is_retryable_error(last_error)
    /\ calls = 2 /\ max_retries >= 2 /\ Len(observed) = 1

\* the loop of RetryingClient goes on after the failure: it sleeps, or has
\* slept and is issuing the request again
ClientRetrying == pc \in {"sleep", "call", "acquire"} /\ Len(sleeps) = calls

\* C5: after a status error with a status in 400..499 other than 429 the
\* RetryingClient raises that error without a sleep and without another
\* request, whatever max_retries is; after a 429 with attempts remaining it
\* sleeps and issues the request again.
C5_ClientErrorsTerminal ==
    (api = "RetryingClient" /\ FailedNow /\ last_error.kind = "HTTPStatusError")
    => /\ (400 <= last_error.status /\ last_error.status <= 499
               /\ last_error.status # 429)
            => (pc = "raised" /\ raised = last_error /\ Len(sleeps) = calls - 1)
       /\ (last_error.status = 429 /\ calls <= max_retries) => ClientRetrying

C5_Witness ==
    /\ api = "RetryingClient" /\ FailedNow /\ last_error.status = 429
    /\ pc = "acquire" /\ n_acquire = calls + 1 /\ sleeps # <<>>

\* C6: while attempts remain, the RetryingClient sleeps and re-issues after
\* a status error or a connection/timeout failure if and only if
\* is_retryable_error is true of that failure.
C6_RetriesIffClassifier ==
    (api = "RetryingClient" /\ FailedNow /\ calls <= max_retries)
    => (ClientRetrying <=> is_retryable_error(last_error))

\* C7: the sleep of RetryingClient after a status error at attempt i lasts
\* float(Retry-After) when the header is present and parses, not clamped to
\* max_delay, and min(base_delay * 2^i, max_delay) otherwise.
C7_RetryAfterDelay ==
    (api = "RetryingClient" /\ pc = "sleep" /\ last_error.kind = "HTTPStatusError")
    => /\ Len(sleeps) = attempt + 1
       /\ Last(sleeps) =
            IF last_error.retry_after.present
               /\ FloatParses(last_error.retry_after.text)
            THEN ParseFloat(last_error.retry_after.text)
            ELSE Min(base_delay * Pow2(attempt), max_delay)

C7_Witness ==
    /\ api = "RetryingClient" /\ pc = "sleep" /\ attempt = 1
    /\ last_error.kind = "HTTPStatusError"
    /\ last_error.retry_after.present
    /\ Last(sleeps) > max_delay
    /\ sleeps[1] = base_delay

\* C8, in every state: 0 <= tokens <= burst_size
C8_TokensInRange == 0 <= tokens /\ tokens <= burst_size * TokenUnit

\* C8, step by step: last_update never decreases
C8_LastUpdateMonotonic == last_update' >= last_update

\* C8: in every reachable state of a RateLimiter, also while a caller is
\* waiting, 0 <= tokens <= burst_size, and last_update never decreases.
C8_LimiterInvariant == []C8_TokensInRange /\ [][C8_LastUpdateMonotonic]_vars

C8_Witness ==
    /\ api = "RateLimiter" /\ last_update > 0 /\ Len(done_at) >= 2
    /\ \E p \in Callers : lpc[p] = "sleeping"
    /\ tokens > 0 /\ tokens < TokenUnit

\* the callers inside the refill-and-decide step: between the read of
\* tokens / last_update and the final write of tokens
InCriticalSection == {p \in Procs : lpc[p] = "sleeping"}

\* C9, in every state: at most one caller is inside, and it is the holder
\* of the lock
C9_OneInside ==
    /\ Cardinality(InCriticalSection) <= 1
    /\ lock = InCriticalSection

\* C9, step by step: while a caller stays inside, no step writes tokens or
\* last_update
C9_NoInterference ==
    \A p \in Procs :
        (lpc[p] = "sleeping" /\ lpc'[p] = "sleeping")
        => (tokens' = tokens /\ last_update' = last_update)

\* C9: at most one acquire() caller at a time is inside the
\* refill-and-decide step, and no other caller reads or writes tokens or
\* last_update between that caller's read and its final write of tokens.
C9_MutualExclusion == []C9_OneInside /\ [][C9_NoInterference]_vars

C9_Witness ==
    \E p \in Callers, q \in Callers :
        /\ lpc[p] = "sleeping" /\ lpc[q] = "blocked"
        /\ now > sleep_since[p]

\* C10: no caller is suspended in the rate-limit sleep while it holds the
\* lock.
C10_NoSleepUnderLock == \A p \in Procs : lpc[p] = "sleeping" => p \notin lock

\* C11: starting from a full bucket of capacity c, the first c acquire()
\* calls complete in the step that makes them, without sleeping or blocking,
\* and each takes exactly one token from the refilled bucket (from the bucket
\* itself when the calls are back to back); made back to back at the start,
\* they leave c - k tokens after k calls, and the call after them finds the
\* bucket empty and sleeps for one whole token.  Every caller that starts to
\* sleep found tokens < 1 and waits for the 1 - tokens still missing, its
\* sleep lasts at least (1 - tokens) / rate, and it leaves tokens = 0.
C11_Burst ==
    api = "RateLimiter" =>
        /\ n_acquire <= burst_size =>
              /\ Len(done_at) = n_acquire
              /\ \A p \in Callers : lpc[p] = "idle"
        /\ (now = 0 /\ n_acquire <= burst_size) =>
              tokens = (burst_size - n_acquire) * TokenUnit
        /\ (now = 0 /\ n_acquire > burst_size) =>
              /\ Len(done_at) = burst_size
              /\ tokens = 0
              /\ \E p \in Callers : lpc[p] = "sleeping" /\ wait_time[p] = TokenUnit

C11_Step ==
    api = "RateLimiter" =>
        \* a call that completes in the step that makes it
        /\ (n_acquire' = n_acquire + 1 /\ Len(done_at') = Len(done_at) + 1) =>
              /\ lpc' = lpc
              /\ tokens' = Min(burst_size * TokenUnit,
                               tokens + (now - last_update) * rate) - TokenUnit
              /\ now = last_update => tokens' = tokens - TokenUnit
        /\ (n_acquire < burst_size /\ n_acquire' = n_acquire + 1) =>
              Len(done_at') = Len(done_at) + 1
        /\ \A p \in Callers :
            /\ (lpc[p] # "sleeping" /\ lpc'[p] = "sleeping") =>
                  /\ tokens' < TokenUnit
                  /\ wait_time'[p] = TokenUnit - tokens'
                  /\ sleep_since'[p] = now
                  /\ Len(done_at') = Len(done_at)
            /\ (lpc[p] = "sleeping" /\ lpc'[p] # "sleeping") =>
                  /\ (now - sleep_since[p]) * rate >= wait_time[p]
                  /\ tokens' = 0
                  /\ Len(done_at') = Len(done_at) + 1

C11_BurstThenWait == []C11_Burst /\ [][C11_Step]_vars

\* a bucket of capacity 2 took two back-to-back calls and the third sleeps
\* for one whole token
C11_Witness ==
    /\ api = "RateLimiter"
    /\ burst_size = 2
    /\ now = 0
    /\ n_acquire = 3
    /\ Len(done_at) = 2
    /\ \E p \in Callers : lpc[p] = "sleeping" /\ wait_time[p] = TokenUnit

\* an error that carries a response: httpx.HTTPStatusError, or
\* requests.HTTPError with a response
TransportStatusError(e) ==
    e.kind \in {"HTTPStatusError", "RequestsHTTPError"} /\ e.status # 0

Classified == api = "is_retryable_error" /\ fn.done

\* C12: for a transport-status error the classifier returns true for each
\* status in {429,500,502,503,504} and false for each status in
\* {400,401,403,404}, whatever the message says.
C12_ListedStatuses ==
    (Classified /\ TransportStatusError(fn.arg)) =>
        /\ fn.arg.status \in {429, 500, 502, 503, 504} => fn.result = TRUE
        /\ fn.arg.status \in {400, 401, 403, 404} => fn.result = FALSE

\* a 404 whose message says "rate limit" has been classified as not retryable
C12_Witness ==
    /\ Classified
    /\ TransportStatusError(fn.arg)
    /\ fn.arg.status = 404
    /\ fn.arg.msg = <<"Rate", "LIMIT">>
    /\ fn.result = FALSE

\* the message names a rate limit, in any letter case
MessageSaysRateLimit(e) ==
    \E phrase \in {<<"rate", "limit">>, <<"too", "many", "requests">>, <<"429">>} :
        Contains(LowerMsg(e.msg), phrase)

ConnectionOrTimeout(e) ==
    e.kind \in {"ConnectError", "TimeoutException", "RequestsConnectionError",
                "RequestsTimeout"}

\* the six rules in priority order, a status in neither set deciding nothing
SixRulePolicy(e) ==
    IF e.kind = "RetryableError" THEN TRUE
    ELSE IF e.kind = "NonRetryableError" THEN FALSE
    ELSE IF TransportStatusError(e) /\ e.status \in {429, 500, 502, 503, 504} THEN TRUE
    ELSE IF TransportStatusError(e) /\ e.status \in {400, 401, 403, 404} THEN FALSE
    ELSE IF ConnectionOrTimeout(e) THEN TRUE
    ELSE MessageSaysRateLimit(e)

\* the six rules with the status rule deciding for every status
StatusDecidesPolicy(e) ==
    IF e.kind = "RetryableError" THEN TRUE
    ELSE IF e.kind = "NonRetryableError" THEN FALSE
    ELSE IF TransportStatusError(e) THEN e.status \in {429, 500, 502, 503, 504}
    ELSE IF ConnectionOrTimeout(e) THEN TRUE
    ELSE MessageSaysRateLimit(e)

\* C13 as stated: for every error the classifier equals the six-rule policy
\* applied in priority order.
C13_SixRules == Classified => fn.result = SixRulePolicy(fn.arg)

\* C13: for every error the classifier equals the policy in priority order:
\* tagged retryable gives true; tagged non-retryable gives false; a
\* transport-status error gives true exactly when its status is in the
\* retryable set, and false for every other status without its message being
\* consulted; a connection or timeout failure gives true; a message naming a
\* rate limit gives true; anything else gives false.
C13_StatusDecides == Classified => fn.result = StatusDecidesPolicy(fn.arg)

\* a transport-status error with status 418 and a rate-limit message has
\* been classified as not retryable
C13_Witness ==
    /\ Classified
    /\ fn.arg.kind = "HTTPStatusError"
    /\ fn.arg.status = 418
    /\ fn.arg.msg = <<"Too", "Many", "Requests">>
    /\ fn.result = FALSE

\* min(base * 2^i, cap)
CappedDoubling(base, i, cap) == IF base * 2^i <= cap THEN base * 2^i ELSE cap

\* C14: the delay a wrapper sleeps after failed attempt i (0-indexed) is
\* min(base_delay * 2^i, max_delay); the delays are non-decreasing and never
\* exceed max_delay; with base_delay = 1 and max_delay = 30 the expression
\* gives 1, 2, 4, 8, 16, 30 for attempts 0..5.
C14_ExponentialBackoff ==
    /\ api \in Wrappers =>
          /\ \A k \in 1..Len(sleeps) :
                /\ sleeps[k] = CappedDoubling(base_delay, k - 1, max_delay)
                /\ sleeps[k] <= max_delay
          /\ \A k \in 1..(Len(sleeps) - 1) : sleeps[k] <= sleeps[k + 1]
    /\ (api = "backoff_delay" /\ fn.done) =>
          /\ fn.result = CappedDoubling(base_delay, fn.arg, max_delay)
          /\ fn.result <= max_delay
          /\ (base_delay = 1 /\ max_delay = 30 /\ fn.arg <= 5) =>
                fn.result = <<1, 2, 4, 8, 16, 30>>[fn.arg + 1]

\* a wrapper with base_delay = 2 and max_delay = 3 slept twice, the second
\* time for the capped delay
C14_Witness ==
    /\ api \in Wrappers
    /\ base_delay = 2
    /\ max_delay = 3
    /\ sleeps = <<2, 3>>

\* C15: with an observer, it has been called exactly once for each sleep
\* begun, the k-th call carrying attempt number k, the error the k-th
\* invocation raised and the delay of the k-th sleep; it is called in the step
\* that begins a sleep and in no other (not on success, not when an error is
\* re-raised); without an observer nothing is called.
C15_Observed ==
    api \in Wrappers =>
        /\ ~on_retry => observed = <<>>
        /\ on_retry =>
              /\ Len(observed) = Len(sleeps)
              /\ \A k \in 1..Len(observed) :
                    /\ observed[k][1] = k
                    /\ observed[k][2].id = k
                    /\ observed[k][3] = sleeps[k]
              /\ \A k \in 1..(Len(observed) - 1) : observed[k][1] < observed[k + 1][1]
              /\ Ended => Len(observed) = calls - 1

C15_Step ==
    (api \in Wrappers /\ on_retry) =>
        /\ observed' # observed =>
              /\ pc = "call" /\ pc' = "sleep"
              /\ Len(observed') = Len(observed) + 1
              /\ Last(observed')[2] = last_error'
              /\ Last(observed')[3] = Last(sleeps')
        /\ (pc = "call" /\ pc' = "sleep") => Len(observed') = Len(observed) + 1
        /\ pc' \in {"returned", "raised"} => observed' = observed

C15_ObserverBeforeEachSleep == []C15_Observed /\ [][C15_Step]_vars

\* an observer was called twice and the call then ended
C15_Witness ==
    /\ api \in Wrappers
    /\ on_retry
    /\ Len(observed) = 2
    /\ Ended

\* a verb call on the RateLimitedClient is over
RlcEnded == rlc.pc \in {"returned", "raised"}

\* C16: every verb call makes one acquire() and, once that has returned, one
\* request with the verb's method; a call in progress has sent nothing yet,
\* a call that is over has sent exactly one request, and it raised exactly
\* when there was no response or the status was outside 200..299.
C16_Counts ==
    api = "RateLimitedClient" =>
        /\ n_acquire = rlc.verb_calls
        /\ rlc.requests <= Len(done_at)
        /\ rlc.pc = "acquire" => rlc.requests = rlc.verb_calls - 1
        /\ rlc.pc # "acquire" =>
              /\ rlc.requests = rlc.verb_calls
              /\ Len(done_at) = rlc.verb_calls
        /\ RlcEnded =>
              /\ rlc.method = rlc.verb
              /\ rlc.pc = "raised" <=>
                    (rlc.status = 0 \/ ~(200 <= rlc.status /\ rlc.status <= 299))
              /\ rlc.pc = "raised" => rlc.error.id = rlc.requests

\* a request is sent only by a call whose acquire() has returned, and ends
\* the call; nothing is sent or acquired between two verb calls
C16_Step ==
    api = "RateLimitedClient" =>
        /\ rlc.requests' # rlc.requests =>
              /\ rlc.requests' = rlc.requests + 1
              /\ rlc.pc = "acquire"
              /\ Len(done_at) = rlc.verb_calls
              /\ n_acquire' = n_acquire
              /\ rlc.pc' \in {"returned", "raised"}
        /\ (RlcEnded /\ rlc.verb_calls' = rlc.verb_calls) =>
              /\ rlc.requests' = rlc.requests
              /\ n_acquire' = n_acquire

C16_AcquireThenOneRequest == []C16_Counts /\ [][C16_Step]_vars

\* three verb calls were made, the third passed acquire() after time had
\* gone by, sent its request, got a 500 and raised; three requests in all
C16_Witness ==
    /\ api = "RateLimitedClient"
    /\ rlc.verb_calls = 3
    /\ rlc.requests = 3
    /\ rlc.pc = "raised"
    /\ rlc.status = 500
    /\ now > 0
    /\ done_at[3] > 0

\* a credential that is empty or begins with the reserved prefix
PlaceholderCredential(key) == key = <<>> \/ (Len(key) >= 1 /\ key[1] = "your_")

\* C17: get_llm_client never constructs an adapter with a missing, empty or
\* placeholder credential, whether the credential comes from the api_key
\* argument or from the environment.
C17_NoPlaceholderCredential ==
    api = "get_llm_client" =>
        \A i \in 1..Len(instances) : ~PlaceholderCredential(instances[i].api_key)

\* the adapter the latest factory call returned
Returned == instances[last_call.instance]

FactoryReturned == api = "get_llm_client" /\ last_call.outcome = "returned"

\* explicit argument, else the configuration value, else the default
Precedence(arg, name, configured, default) ==
    IF arg.set THEN arg.val
    ELSE IF name \in DOMAIN env THEN configured ELSE default

\* C18: the max_tokens, temperature and model held by the returned adapter
\* are the explicit argument whenever one is passed (0 and 0.0 included),
\* otherwise the configuration value when set, otherwise the default (4096,
\* 0.3 - here 3 tenths -, the provider's default model).
C18_ExplicitThenConfiguredThenDefault ==
    FactoryReturned =>
        /\ Returned.max_tokens =
              Precedence(last_call.args.max_tokens, "LLM_MAX_TOKENS", 100, 4096)
        /\ Returned.temperature =
              Precedence(last_call.args.temperature, "LLM_TEMPERATURE", 5, 3)
        /\ Returned.class = "OpenAIClient" =>
              Returned.model =
                  Precedence(last_call.args.model, "LLM_MODEL", "gpt-4o-mini", "gpt-4o")

\* the name the latest call resolved: the argument, else LLM_PROVIDER in
\* lower case, else anthropic
C19_Resolved(call) ==
    IF call.args.provider.set THEN call.args.provider.val
    ELSE IF "LLM_PROVIDER" \in DOMAIN env THEN LowerName(env["LLM_PROVIDER"])
    ELSE "anthropic"

\* C19: the four built-in providers are always registered; a call whose
\* resolved provider name is not in the registry fails with the error that
\* lists every name registered at that moment, and constructs nothing.
C19_Registry ==
    api = "get_llm_client" =>
        /\ {"anthropic", "openai", "google", "grok"} \subseteq DOMAIN registry
        /\ last_call.reason = "Unknown provider" =>
              /\ last_call.outcome = "ValueError"
              /\ last_call.instance = 0
              /\ {"anthropic", "openai", "google", "grok"} \subseteq last_call.available

C19_Step ==
    (api = "get_llm_client" /\ last_call'.n = last_call.n + 1) =>
        /\ C19_Resolved(last_call') \notin DOMAIN registry =>
              /\ last_call'.outcome = "ValueError"
              /\ last_call'.reason = "Unknown provider"
              /\ last_call'.available = DOMAIN registry
              /\ instances' = instances
        /\ last_call'.reason = "Unknown provider" =>
              C19_Resolved(last_call') \notin DOMAIN registry

C19_UnknownProvider == []C19_Registry /\ [][C19_Step]_vars

\* with a fifth provider registered, a call naming an unknown provider
\* failed and was told all five names
C19_Witness ==
    /\ api = "get_llm_client"
    /\ last_call.reason = "Unknown provider"
    /\ last_call.args.provider = Some("nope")
    /\ last_call.available = {"anthropic", "openai", "google", "grok", "custom"}
    /\ instances = <<>>

\* the configured fields of an adapter
Fields(inst) ==
    <<inst.class, inst.model, inst.api_key, inst.max_tokens, inst.temperature>>

\* C20: the adapters constructed so far are pairwise distinct objects; every
\* successful call adds exactly one new adapter and returns it, a failing
\* call adds none, earlier adapters are left as they were, and a call with
\* the same arguments as the successful call before it succeeds too and
\* returns a distinct adapter with equal fields.
C20_Distinct ==
    api = "get_llm_client" =>
        /\ \A i, j \in 1..Len(instances) :
              i # j => instances[i].id # instances[j].id
        /\ last_call.outcome = "returned" => last_call.instance \in 1..Len(instances)

C20_Step ==
    (api = "get_llm_client" /\ last_call'.n = last_call.n + 1) =>
        /\ last_call'.outcome = "returned" =>
              /\ Len(instances') = Len(instances) + 1
              /\ SubSeq(instances', 1, Len(instances)) = instances
              /\ Last(instances').id = last_call'.instance
              /\ \A i \in 1..Len(instances) : instances[i].id # last_call'.instance
        /\ last_call'.outcome # "returned" => instances' = instances
        /\ (last_call.outcome = "returned" /\ last_call'.args = last_call.args) =>
              /\ last_call'.outcome = "returned"
              /\ Fields(Last(instances')) = Fields(instances[last_call.instance])
              /\ Last(instances').id # instances[last_call.instance].id

C20_OneNewAdapterPerCall == []C20_Distinct /\ [][C20_Step]_vars

\* two calls with the same arguments returned two adapters with equal fields
C20_Witness ==
    /\ api = "get_llm_client"
    /\ Len(instances) = 2
    /\ last_call.n = 2
    /\ Fields(instances[1]) = Fields(instances[2])
    /\ instances[1].id # instances[2].id

\* C21: the registered names are exactly the names some register_provider
\* call named, each mapped to the class of the latest such call; no step
\* removes a name; a registration that repeats the latest class of its name
\* leaves the registry as it was; get_llm_client and list_available_models
\* leave the registry as it was.
C21_LatestRegistration ==
    api \in FactoryApis =>
        /\ DOMAIN registry =
              {n \in DOMAIN latest_registration : latest_registration[n] # "none"}
        /\ \A n \in DOMAIN registry : registry[n] = latest_registration[n]
        /\ {"anthropic", "openai", "google", "grok"} \subseteq DOMAIN registry

C21_Step ==
    api \in FactoryApis =>
        /\ DOMAIN registry \subseteq DOMAIN registry'
        /\ latest_registration' = latest_registration => registry' = registry
        /\ (last_call' # last_call \/ fn' # fn) => registry' = registry

C21_RegistryOnlyGrows == []C21_LatestRegistration /\ [][C21_Step]_vars

\* openai was re-registered with another class, a new name was registered,
\* and the factory and list_available_models have been called
C21_Witness ==
    /\ api = "register_provider"
    /\ registry["openai"] = "CustomClient"
    /\ "custom" \in DOMAIN registry
    /\ last_call.outcome = "returned"
    /\ fn.done
    /\ DOMAIN fn.result = {"anthropic", "openai", "google", "grok", "custom"}

\* the count a usage map gives for a key, 0 when the key is missing
UsageCount(usage, key) == IF key \in DOMAIN usage THEN usage[key] ELSE 0

\* C22: for every LLMResponse total_tokens = input_tokens + output_tokens,
\* each being the count under its key or 0 when the key is missing; with an
\* empty usage map all three are 0.
C22_TotalIsSum ==
    (api = "LLMResponse" /\ fn.done) =>
        /\ fn.result.input_tokens = UsageCount(fn.arg, "input_tokens")
        /\ fn.result.output_tokens = UsageCount(fn.arg, "output_tokens")
        /\ fn.result.total_tokens = fn.result.input_tokens + fn.result.output_tokens
        /\ DOMAIN fn.arg = {} =>
              /\ fn.result.input_tokens = 0
              /\ fn.result.output_tokens = 0
              /\ fn.result.total_tokens = 0

\* a usage map without input_tokens, with output_tokens = 2 and a
\* total_tokens entry of 1, has been read: the total is 2
C22_Witness ==
    /\ api = "LLMResponse"
    /\ fn.done
    /\ DOMAIN fn.arg = {"output_tokens", "total_tokens"}
    /\ fn.arg["output_tokens"] = 2
    /\ fn.arg["total_tokens"] = 1
    /\ fn.result.total_tokens = 2

\* C23: the lock is only ever held by a caller that is sleeping in
\* acquire(), never by a cancelled one, so a later caller can take it; the
\* step that cancels a sleeping caller releases the lock and leaves tokens,
\* last_update and the completed calls as they were.
C23_LockHeldBySleeper ==
    \A p \in lock : lpc[p] = "sleeping"

C23_Step ==
    \A p \in Callers :
        (lpc[p] = "sleeping" /\ lpc'[p] = "cancelled in sleep") =>
            /\ p \in lock
            /\ lock' = {}
            /\ tokens' <= tokens
            /\ tokens' = tokens
            /\ last_update' = last_update
            /\ done_at' = done_at

C23_CancelReleasesLock == []C23_LockHeldBySleeper /\ [][C23_Step]_vars

\* one caller was cancelled in its sleep and the other caller, which was
\* waiting for the lock or came later, has completed an acquire() since
C23_Witness ==
    /\ api = "RateLimiter.cancel"
    /\ burst_size = 1
    /\ \E p \in Callers : lpc[p] = "cancelled in sleep"
    /\ n_acquire = 3
    /\ Len(done_at) = 2
    /\ lock = {}

\* C24: a client made by create_rate_limited(fail_first = N) raises the
\* RetryableError on each of its first N calls and returns on every later
\* call, so a call wrapped in with_retry_sync with max_retries >= N returns.
C24_FailsFirstThenSucceeds ==
    mock.made =>
        /\ \A k \in 1..Len(mock.outcomes) :
              mock.outcomes[k] =
                  IF k <= mock.fail_first THEN "RetryableError" ELSE "returned"
        /\ (api \in Wrappers /\ Ended /\ max_retries >= mock.fail_first) =>
              pc = "returned"

\* C25: every verb of RateLimitedClient (get, post, put, patch, delete) can
\* be called on a RetryingClient and is dispatched through the retry loop to
\* the rate-limited verb of the same name.
C25_EveryVerbDispatched ==
    (api = "RetryingClient.verb" /\ fn.done) =>
        /\ fn.arg \in {"get", "post", "put", "patch", "delete"}
        /\ fn.result = fn.arg

WrapperRetrying == pc \in {"sleep", "call"} /\ Len(sleeps) = calls

C28_StatusAlone ==
    (Classified /\ TransportStatusError(fn.arg)) =>
        /\ fn.result = (fn.arg.status \in {429, 500, 502, 503, 504})
        /\ \A e \in ClassifierInputs :
              (TransportStatusError(e) /\ e.status = fn.arg.status)
                  => is_retryable_error(e) = fn.result

\* a 501 from requests whose message contains "429" is classified as not
\* retryable
C28_Witness ==
    /\ Classified
    /\ fn.arg.kind = "RequestsHTTPError"
    /\ fn.arg.status = 501
    /\ fn.arg.msg = <<"error", "429">>
    /\ fn.result = FALSE

\* C29 in every state: the RetryingClient has called acquire() once for each
\* request it has sent and once more for the attempt in progress, and each
\* request sent followed a completed acquire().
C29_AcquirePerAttempt ==
    api = "RetryingClient" =>
        /\ n_acquire = calls + (IF pc = "acquire" THEN 1 ELSE 0)
        /\ Len(done_at) = calls + (IF pc = "acquire" /\ lpc[Client] = "done" THEN 1 ELSE 0)

\* C29 step by step: a request is sent only when the acquire() of its
\* attempt has returned; the steps of the retry loop that follow a request
\* (failure, sleep, give up) leave the bucket as it is; the bucket's level
\* rises only inside acquire(), by the refill for elapsed time.
C29_Step ==
    api = "RetryingClient" =>
        /\ calls' = calls + 1 =>
              /\ lpc[Client] = "done"
              /\ Len(done_at) = calls + 1
              /\ n_acquire = calls + 1
        /\ (calls' # calls \/ last_error' # last_error \/ sleeps' # sleeps
                \/ attempt' # attempt \/ raised' # raised) =>
              /\ tokens' = tokens
              /\ last_update' = last_update
        /\ tokens' > tokens =>
              /\ n_acquire' = n_acquire + 1
              /\ now > last_update

\* C29: every attempt of the RetryingClient, the first and each retry, goes
\* through the limiter's acquire() before its request is sent, and the token
\* consumed by an attempt that fails is never given back to the bucket.
C29_EveryAttemptAcquires == []C29_AcquirePerAttempt /\ [][C29_Step]_vars

\* the second retry has its token and is about to send its request, after
\* two failed attempts that each took one
C29_Witness ==
    /\ api = "RetryingClient"
    /\ pc = "acquire"
    /\ lpc[Client] = "done"
    /\ FailedNow
    /\ calls = 2
    /\ n_acquire = 3
    /\ Len(done_at) = 3

\* C30, the wrappers step by step: a call ends only in the step in which the
\* operation returns or raises, inside the loop; a sleep is followed by the
\* next invocation, never by the code after the loop.
C30_EndsInsideLoop ==
    api \in Wrappers =>
        /\ (pc' # pc /\ pc' \in {"returned", "raised"}) =>
              (pc = "call" /\ calls' = calls + 1)
        /\ pc = "sleep" => pc' \in {"sleep", "call"}

\* C30, the RetryingClient: what its loop raises, at once or by the final
\* "raise last_error", is an error that was recorded or raised by the
\* request, never "raise None".
C30_LastErrorRecorded ==
    (api = "RetryingClient" /\ pc = "raised") =>
        /\ raised # TypeErrorNone
        /\ raised # NoError
        /\ (FailedNow /\ ~is_client_error(last_error.status) /\ calls = max_retries + 1)
              => raised = last_error

\* C30: with max_retries >= 0 the code after the loop of with_retry /
\* with_retry_sync is never reached, every call ending inside the loop by a
\* return or a re-raise; and the final raise of RetryingClient always has a
\* recorded last error.
C30_NoFallthrough ==
    /\ [](max_retries >= 0)
    /\ [][C30_EndsInsideLoop]_vars
    /\ []C30_LastErrorRecorded

\* a wrapper has used up its attempts on errors it retries and has re-raised
\* the last one from inside the loop
C30_Witness ==
    /\ api = "with_retry_sync"
    /\ ~mock.made
    /\ pc = "raised"
    /\ max_retries = 1
    /\ calls = max_retries + 1
    /\ Len(sleeps) = 1
    /\ should_retry(last_error)
    /\ raised = last_error

====
